---- MODULE Spec2Model ----
(***************************************************************************)
(* Model of toxic-comment-classification/base.py: BaseModel.main (the      *)
(* k-fold orchestration with its resume check and the aggregation of the   *)
(* per-fold prediction files), BaseModel.train (SGD with warm restarts,    *)
(* frozen embeddings first, fine-tuning afterwards, best checkpoint by     *)
(* validation AUC) and BaseModel.build_fields_and_vocab (mean-vector       *)
(* fallback for tokens without a pretrained vector).                       *)
(*                                                                         *)
(* The abstract hooks of BaseModel (build_train_iterator,                  *)
(* build_prediction_iterator, build_model) are taken to be provided by a   *)
(* conforming subclass.  Validation AUCs are levels 0..MaxScore (level 0   *)
(* is AUC 0.0); learning rates are small integers.                         *)
(***************************************************************************)
EXTENDS Integers, Sequences, FiniteSets, TLC

\* ------------------------------------------------------------------ bounds
MaxScore == 3
NumTrainIds == 12
NumTestIds == 2
MaxVec == 2

\* ------------------------------------------------------- program constants
\* base.py:97 and base.py:107: `for fold_num in range(1, 11)`
NumCombined == 10
\* base.py:171: `t_max = 10`
InitialTMax == 10
\* base.py:230: `t_max = 1`
FineTuneTMax == 1
\* base.py:172: `best_val_auc = 0`
InitialBest == 0

\* ------------------------------------------------------------------ inputs
Scores == 0..MaxScore
\* params['lr_high'], params['lr_low']
LrHighValues == {2}
LrLowValues == {-1, 0, 1}
\* number of folds yielded by common.stratified_kfold
FoldCounts == {1, 2, NumCombined, NumCombined + 1}
MaxFold == NumCombined + 1
Folds == 1..MaxFold
\* len(train_iter): the number of batches of an epoch
TrainIterLengths == {1, 2, 3}
MainIterLengths == {2}
TrainIds == 1..NumTrainIds
TestIds == 1..NumTestIds
\* vocab.itos: the padding token first, then the tokens of the corpora
PadToken == "<PAD>"
itos == <<PadToken, "a", "b">>
Tokens == {itos[i] : i \in 1..Len(itos)}
\* a pretrained source gives a token a vector (here of dimension 1) or nothing
VecValues == 0..MaxVec
NotFound == <<>>
AllPretrained == [Tokens -> {NotFound} \cup {<<v>> : v \in VecValues}]
MainPretrained == {[t \in Tokens |-> IF t = "a" THEN <<MaxVec>> ELSE NotFound]}

VARIABLES
    params,         \* self.params: [lr_high, lr_low]
    len_train_iter, \* len(train_iter)
    pretrained,     \* the pretrained vectors named by params['vectors']
    vocab,          \* self.vocab.vectors: one row per token of itos
    k,              \* number of folds common.stratified_kfold yields
    pc,             \* position of main: idle, fold, train (head of `while True`), run (inside
                    \* the epochs of a run), predict_val, predict_test, combine_test
    outcome,        \* how the last invocation of main ended: none, skipped, returned, or the
                    \* exception raised (KeyboardInterrupt when the process was interrupted)
    fold_num,       \* loop variable of main (0 before the first fold)
    ckpt,           \* fold numbers whose fold{n}.pickle exists
    fold_validation,\* fold{n}_validation.csv
    fold_test,      \* fold{n}_test.csv
    train_csv,      \* train.csv
    test_csv,       \* test.csv
    model,          \* local `model` of train / main
    parameters,     \* parameter groups handed to the optimizer
    run,            \* local `run` of train
    epoch,          \* local `epoch` of train
    t_max,          \* local `t_max` of train
    lr_max,         \* local `lr_max` of train
    best_val_auc,   \* local `best_val_auc` of train
    step,           \* batches done in the current run: t_index * len(train_iter) + batch_index
    lr,             \* param_group['lr'] of the optimizer
    log_run,        \* last 'Starting run {} - t_max {}' line: <<run, t_max>>
    scores,         \* history: val_auc of every run of the current train call
    saved_by,       \* history: index in scores of the run that last saved in this call
    saved_model     \* history: the module state that run saved

files == <<ckpt, fold_validation, fold_test, train_csv, test_csv>>
locals ==
    <<model, parameters, run, epoch, t_max, lr_max, best_val_auc, step, lr,
      log_run, scores, saved_by, saved_model>>
config == <<params, len_train_iter, pretrained, k>>
vars == <<config, vocab, pc, outcome, fold_num, files, locals>>

\* ------------------------------------------------------------ vocabulary
\* numbers that came out of a division are kept as exact fractions; numpy
\* gives 0/0 = nan and raises nothing, and nan is a fraction with den = 0
Frac(n, d) == [num |-> n, den |-> d]
IsNaN(x) == x.den = 0
ZeroVector == Frac(0, 1)
NoVocab == <<>>

\* base.py:141
InStoi(p, token) == p[token] # NotFound
RECURSIVE vectors_sum(_, _)
\* base.py:138-143 over the first n tokens of itos
vectors_sum(p, n) ==
    IF n = 0 THEN 0
    ELSE vectors_sum(p, n - 1) + (IF InStoi(p, itos[n]) THEN p[itos[n]][1] ELSE 0)
\* (variant: the count is incremented for every token, found or not)
vectors_count_all(p, n) == n
RECURSIVE vectors_count(_, _)
vectors_count(p, n) ==
    IF n = 0 THEN 0
    ELSE vectors_count(p, n - 1) + (IF InStoi(p, itos[n]) THEN 1 ELSE 0)
\* base.py:144
mean_vector(p) == Frac(vectors_sum(p, Len(itos)), vectors_count(p, Len(itos)))
\* base.py:146-148
getitem(p, token) == IF InStoi(p, token) THEN Frac(p[token][1], 1) ELSE mean_vector(p)
\* base.py:150: vocab.load_vectors(vectors) looks every token of itos up
build_fields_and_vocab(p) == [i \in 1..Len(itos) |-> getitem(p, itos[i])]
\* base.py:134
PadIndex == 1
\* (variant: the padding row is not zeroed)
EmbeddingWeightCopied(v) == v
\* BaseModule.__init__ (base.py:296-299): copy the vectors, zero the padding row
EmbeddingWeight(v) == [v EXCEPT ![PadIndex] = ZeroVector]

\* ------------------------------------------------------------------- files
NoFile == [exists |-> FALSE, rows |-> <<>>]
File(rows) == [exists |-> TRUE, rows |-> rows]

\* --------------------------------------------------------------- the model
\* steps / embedding_steps: the optimizer steps of this train call that went into
\* the module's parameters / into its embedding weights
NoModel ==
    [origin |-> "none", fold |-> 0, from |-> 0, requires_grad |-> FALSE,
     embedding |-> <<>>, steps |-> 0, embedding_steps |-> 0]
\* a module as build_model returns it: nn.Embedding's weight requires grad
BuiltModel(f) ==
    [origin |-> "built", fold |-> f, from |-> 0, requires_grad |-> TRUE,
     embedding |-> EmbeddingWeight(vocab), steps |-> 0, embedding_steps |-> 0]
\* the parameters with requires_grad set (base.py:165, base.py:223)
OtherParameters == {"lstm", "dense"}
\* (variant: the requires_grad filter is missing)
AllParameters(m) == OtherParameters \cup {"embedding"}
TrainableParameters(m) ==
    IF m.requires_grad THEN OtherParameters \cup {"embedding"} ELSE OtherParameters

\* load_model: a fresh module with the state of fold{n}.pickle; `from` is the
\* run of this train call that wrote the file, 0 when an earlier invocation did
load_model(f) ==
    [origin |-> "loaded", fold |-> f, from |-> saved_by, requires_grad |-> TRUE,
     embedding |-> EmbeddingWeight(vocab),
     steps |-> saved_model.steps, embedding_steps |-> saved_model.embedding_steps]

\* optimizer.step() n times (base.py:200, 265-266): only the parameters handed
\* to the optimizer change
OptimizerSteps(m, n) ==
    [m EXCEPT !.steps = @ + n,
              !.embedding_steps = IF "embedding" \in parameters THEN @ + n ELSE @]

\* ------------------------------------------------------ the learning rate
\* math.cos(math.pi * i / 60) for i = 0..60, in units of 1/10000
CosScale == 10 ^ 4
CosTable ==
    <<10000, 9986, 9945, 9877, 9781, 9659, 9511, 9336, 9135, 8910,
      8660, 8387, 8090, 7771, 7431, 7071, 6691, 6293, 5878, 5446,
      5000, 4540, 4067, 3584, 3090, 2588, 2079, 1564, 1045, 523,
      0, -523, -1045, -1564, -2079, -2588, -3090, -3584, -4067, -4540,
      -5000, -5446, -5878, -6293, -6691, -7071, -7431, -7771, -8090, -8387,
      -8660, -8910, -9135, -9336, -9511, -9659, -9781, -9877, -9945, -9986,
      -10000>>
\* cos(pi * s / total), for the fractions s/total that occur
Cos(s, total) == CosTable[(60 * s) \div total + 1]
\* base.py:189-190 with t_cur / t_max = s / total; the value is kept as a
\* fraction over 2 * CosScale
LearningRate(lrmax, s, total) == Frac(lrmax * (CosScale + Cos(s, total)), 2 * CosScale)
\* base.py:177, base.py:170, base.py:229: lr = lr_max
FullLr(lrmax) == Frac(lrmax * 2 * CosScale, 2 * CosScale)
NoLr == Frac(0, 2 * CosScale)
\* the batches of a run: t_max epochs of len(train_iter) batches
RunLength == t_max * len_train_iter

\* --------------------------------------------------------------- the split
\* common.stratified_kfold: every labeled id is in the validation set of one fold
val_fold(id) == ((id - 1) % k) + 1
stratified_kfold_raises == k < 2

RECURSIVE IdsFrom(_, _)
IdsFrom(n, f) ==
    IF n = 0 THEN <<>>
    ELSE IF val_fold(n) = f THEN Append(IdsFrom(n - 1, f), n) ELSE IdsFrom(n - 1, f)
val_ids(f) == IdsFrom(NumTrainIds, f)

\* ------------------------------------------------------------- predictions
\* the score a fold's model gives an example (one label)
Output(m, id) == (m.fold + id) % 3

RECURSIVE PredictRows(_, _)
PredictRows(m, ids) ==
    IF ids = <<>> THEN <<>>
    ELSE <<[id |-> Head(ids), score |-> Output(m, Head(ids))]>> \o PredictRows(m, Tail(ids))
predict(m, ids) == File(PredictRows(m, ids))

test_ids == [i \in 1..NumTestIds |-> i]

\* ----------------------------------------------------------- train: setup
\* (variant: train goes on with the module of the fold before, when there is one)
ContinuedModel(f) ==
    IF model.origin = "none" THEN [BuiltModel(f) EXCEPT !.requires_grad = FALSE]
    ELSE [model EXCEPT !.requires_grad = FALSE]
\* base.py:163-164: a new module, its embeddings frozen
FrozenModel(f) == [BuiltModel(f) EXCEPT !.requires_grad = FALSE]

\* base.py:154-172
TrainInit(f) ==
    LET m == FrozenModel(f) IN
    /\ model' = m
    /\ parameters' = TrainableParameters(m)
    /\ run' = 0
    /\ epoch' = 0
    /\ lr_max' = params.lr_high
    /\ t_max' = InitialTMax
    /\ best_val_auc' = InitialBest
    /\ step' = 0
    /\ lr' = FullLr(params.lr_high)
    /\ log_run' = <<0, 0>>
    /\ scores' = <<>>
    /\ saved_by' = 0
    /\ saved_model' = NoModel

LocalsGone ==
    /\ model' = NoModel
    /\ parameters' = {}
    /\ run' = 0
    /\ epoch' = 0
    /\ lr_max' = 0
    /\ t_max' = 0
    /\ best_val_auc' = 0
    /\ step' = 0
    /\ lr' = NoLr
    /\ log_run' = <<0, 0>>
    /\ scores' = <<>>
    /\ saved_by' = 0
    /\ saved_model' = NoModel

\* (variant: the fold loop catches the exception and goes on with the next fold)
RaiseCaughtInLoop(error) ==
    /\ pc' = "fold"
    /\ outcome' = error
    /\ fold_num' = fold_num
    /\ model' = NoModel
    /\ parameters' = {}
    /\ run' = 0
    /\ epoch' = 0
    /\ lr_max' = 0
    /\ t_max' = 0
    /\ best_val_auc' = 0
    /\ step' = 0
    /\ lr' = NoLr

\* an exception leaves train and main: the locals are gone, the run history is
\* kept until the next call
Raise(error) ==
    /\ pc' = "idle"
    /\ outcome' = error
    /\ fold_num' = 0
    /\ model' = NoModel
    /\ parameters' = {}
    /\ run' = 0
    /\ epoch' = 0
    /\ lr_max' = 0
    /\ t_max' = 0
    /\ best_val_auc' = 0
    /\ step' = 0
    /\ lr' = NoLr

\* -------------------------------------------------------------------- main
InitWith(Pretrained, LrLows, Counts, Lengths) ==
    /\ params \in [lr_high : LrHighValues, lr_low : LrLows]
    /\ len_train_iter \in Lengths
    /\ pretrained \in Pretrained
    /\ k \in Counts
    /\ vocab = NoVocab
    /\ pc = "idle"
    /\ outcome = "none"
    /\ fold_num = 0
    /\ ckpt = {}
    /\ fold_validation = [f \in Folds |-> NoFile]
    /\ fold_test = [f \in Folds |-> NoFile]
    /\ train_csv = NoFile
    /\ test_csv = NoFile
    /\ model = NoModel
    /\ parameters = {}
    /\ run = 0
    /\ epoch = 0
    /\ t_max = 0
    /\ lr_max = 0
    /\ best_val_auc = 0
    /\ step = 0
    /\ lr = NoLr
    /\ log_run = <<0, 0>>
    /\ scores = <<>>
    /\ saved_by = 0
    /\ saved_model = NoModel

Init == InitWith(MainPretrained, LrLowValues, FoldCounts, MainIterLengths)

\* (variant: os.path.isdir instead of os.path.isfile, false for a file)
OutputExistsIsDir == FALSE
\* base.py:62: os.path.isfile(output_dir/test.csv)
OutputExists == test_csv.exists

\* main up to the fold loop (base.py:58-79)
MainStart ==
    /\ pc = "idle"
    /\ UNCHANGED <<config, files>>
    /\ IF OutputExists
       THEN /\ outcome' = "skipped"
            /\ UNCHANGED <<vocab, pc, fold_num, locals>>
       ELSE IF stratified_kfold_raises
       THEN /\ vocab' = build_fields_and_vocab(pretrained)
            /\ Raise("ValueError")
            /\ UNCHANGED <<log_run, scores, saved_by, saved_model>>
       ELSE /\ vocab' = build_fields_and_vocab(pretrained)
            /\ pc' = "fold"
            /\ outcome' = "none"
            /\ fold_num' = 0
            /\ LocalsGone

\* next iteration of the fold loop: train is called (base.py:80-85, 154-172)
TrainBegin ==
    /\ pc = "fold"
    /\ fold_num < k
    /\ fold_num' = fold_num + 1
    /\ pc' = "train"
    /\ TrainInit(fold_num + 1)
    /\ UNCHANGED <<config, vocab, outcome, files>>

\* ------------------------------------------------------- train: one run
\* (variant: a score equal to the best also counts as an improvement)
ImprovedOrEqual(val_auc) == val_auc >= best_val_auc
\* base.py:211
Improved(val_auc) == val_auc > best_val_auc
\* (variant: the cycle length doubles after an improving run, capped at 16)
NextTMaxDoubled(t) == IF 2 * t > 16 THEN 16 ELSE 2 * t
\* base.py:211-214: an improving run leaves t_max as it is
NextTMax(t) == t
\* (variant: the lr_low = 0 test is missing)
FineTuningFinished == model.requires_grad
\* (variant: the requires_grad test is missing)
FineTuningDisabled == params.lr_low = 0
\* base.py:217
FineTuningDisabledOrFinished == params.lr_low = 0 \/ model.requires_grad
\* base.py:285-289: torch.load of a missing file raises
CheckpointExists(f) == f \in ckpt

\* the evaluation that ends a run (base.py:210-230) and, after `break`, the end
\* of train (base.py:232-234); trained, runs, epochs, last_lr: the module, `run`,
\* `epoch` and the optimizer's lr after the run's last batch
Evaluate(trained, runs, epochs, last_lr) ==
    /\ UNCHANGED <<config, vocab, fold_validation, fold_test, train_csv, test_csv>>
    /\ \E val_auc \in Scores :
        /\ scores' = Append(scores, val_auc)
        /\ IF Improved(val_auc)
           THEN \* save_model, best_val_auc = val_auc
                /\ pc' = "train"
                /\ model' = trained
                /\ ckpt' = ckpt \cup {fold_num}
                /\ saved_by' = Len(scores) + 1
                /\ saved_model' = trained
                /\ best_val_auc' = val_auc
                /\ run' = runs
                /\ epoch' = epochs
                /\ step' = RunLength
                /\ lr' = last_lr
                /\ t_max' = NextTMax(t_max)
                /\ UNCHANGED <<outcome, fold_num, parameters, lr_max>>
           ELSE IF ~CheckpointExists(fold_num)
           THEN \* load_model raises, in either branch
                /\ Raise("FileNotFoundError")
                /\ UNCHANGED <<ckpt, saved_by, saved_model>>
           ELSE IF FineTuningDisabledOrFinished
           THEN \* break; model = self.load_model(fold_num); return model
                /\ pc' = "predict_val"
                /\ model' = load_model(fold_num)
                /\ parameters' = {}
                /\ run' = 0
                /\ epoch' = 0
                /\ lr_max' = 0
                /\ t_max' = 0
                /\ best_val_auc' = 0
                /\ step' = 0
                /\ lr' = NoLr
                /\ UNCHANGED <<outcome, fold_num, ckpt, saved_by, saved_model>>
           ELSE \* reload the checkpoint, unfreeze the embeddings, fine-tune
                LET m == [load_model(fold_num) EXCEPT !.requires_grad = TRUE] IN
                /\ pc' = "train"
                /\ model' = m
                /\ parameters' = TrainableParameters(m)
                /\ run' = 0
                /\ epoch' = epochs
                /\ lr_max' = params.lr_low
                /\ step' = RunLength
                /\ lr' = FullLr(params.lr_low)
                /\ t_max' = FineTuneTMax
                /\ UNCHANGED <<outcome, fold_num, ckpt, saved_by, saved_model, best_val_auc>>

\* one pass of `while True` (base.py:174-230) without an exception in it: the
\* run's batches, then the evaluation
Run ==
    /\ pc = "train"
    /\ log_run' = <<run + 1, t_max>>
    /\ Evaluate(OptimizerSteps(model, RunLength), run + 1, epoch + t_max,
                LearningRate(lr_max, RunLength - 1, RunLength))

\* the same pass batch by batch.  base.py:175-181: a run starts
RunStart ==
    /\ pc = "train"
    /\ pc' = "run"
    /\ run' = run + 1
    /\ step' = 0
    /\ lr' = FullLr(lr_max)
    /\ log_run' = <<run + 1, t_max>>
    /\ UNCHANGED <<config, vocab, outcome, fold_num, files, model, parameters, epoch,
                   t_max, lr_max, best_val_auc, scores, saved_by, saved_model>>

\* base.py:183-200: one batch; t_index = step \div len(train_iter) and
\* batch_index = step % len(train_iter), so t_cur / t_max = step / RunLength
Batch ==
    /\ pc = "run"
    /\ step < RunLength
    /\ epoch' = IF step % len_train_iter = 0 THEN epoch + 1 ELSE epoch
    /\ lr' = LearningRate(lr_max, step, RunLength)
    /\ model' = OptimizerSteps(model, 1)
    /\ step' = step + 1
    /\ UNCHANGED <<config, vocab, pc, outcome, fold_num, files, parameters, run, t_max,
                   lr_max, best_val_auc, log_run, scores, saved_by, saved_model>>

\* base.py:210-230: the evaluation after the last batch of the run
RunEnd ==
    /\ pc = "run"
    /\ step = RunLength
    /\ UNCHANGED log_run
    /\ Evaluate(model, run, epoch, lr)

\* an exception in the forward or backward pass of a run, or in the forward
\* pass of predict, propagates out of main (nothing catches it)
Fail ==
    /\ pc \in {"train", "predict_val", "predict_test"}
    /\ Raise("RuntimeError")
    /\ UNCHANGED <<config, vocab, files, log_run, scores, saved_by, saved_model>>

\* ------------------------------------------------- main: the predictions
\* base.py:87-89
PredictValidation ==
    /\ pc = "predict_val"
    /\ fold_validation' = [fold_validation EXCEPT ![fold_num] = predict(model, val_ids(fold_num))]
    /\ pc' = "predict_test"
    /\ UNCHANGED <<config, vocab, outcome, fold_num, ckpt, fold_test, train_csv, test_csv, locals>>

\* base.py:91-93
PredictTest ==
    /\ pc = "predict_test"
    /\ fold_test' = [fold_test EXCEPT ![fold_num] = predict(model, test_ids)]
    /\ pc' = "fold"
    /\ log_run' = <<0, 0>>
    /\ scores' = <<>>
    /\ saved_by' = 0
    /\ UNCHANGED <<config, vocab, outcome, fold_num, ckpt, fold_validation, train_csv, test_csv>>
    /\ saved_model' = NoModel
    /\ UNCHANGED <<model, parameters, run, epoch, t_max, lr_max, best_val_auc, step, lr>>

\* ------------------------------------------------- main: the aggregation
RECURSIVE Concat(_, _)
\* pd.concat of the parts 1..n
Concat(parts, n) == IF n = 0 THEN <<>> ELSE Concat(parts, n - 1) \o parts[n].rows

RECURSIVE SumScores(_, _)
SumScores(rows, id) ==
    IF rows = <<>> THEN 0
    ELSE (IF Head(rows).id = id THEN Head(rows).score ELSE 0) + SumScores(Tail(rows), id)
RECURSIVE CountRows(_, _)
CountRows(rows, id) ==
    IF rows = <<>> THEN 0
    ELSE (IF Head(rows).id = id THEN 1 ELSE 0) + CountRows(Tail(rows), id)

\* the mean as an exact fraction
Mean(rows, id) == [num |-> SumScores(rows, id), den |-> CountRows(rows, id)]

RECURSIVE GroupRows(_, _)
\* one row per id present, ids ascending up to n
GroupRows(rows, n) ==
    IF n = 0 THEN <<>>
    ELSE IF CountRows(rows, n) = 0 THEN GroupRows(rows, n - 1)
    ELSE Append(GroupRows(rows, n - 1), [id |-> n, score |-> Mean(rows, n)])
\* base.py:111: pd.concat(df_parts).groupby('id', as_index=False).mean()
GroupByIdMean(rows) == GroupRows(rows, NumTestIds)

\* base.py:97, base.py:107: range(1, 11)
CombinedFolds == 1..NumCombined

\* (variant: the aggregation is indented into the body of the fold loop)
FoldsStarted == fold_num >= 1
\* base.py:80, 95: the statements after the loop run when the loop is exhausted
FoldsExhausted == fold_num >= k

\* base.py:95-103
CombineValidation ==
    /\ pc = "fold"
    /\ FoldsExhausted
    /\ UNCHANGED <<config, vocab, ckpt, fold_validation, fold_test, test_csv>>
    /\ IF \E f \in CombinedFolds : ~fold_validation[f].exists
       THEN /\ Raise("FileNotFoundError")
            /\ UNCHANGED <<train_csv, log_run, scores, saved_by, saved_model>>
       ELSE /\ train_csv' = File(Concat(fold_validation, NumCombined))
            /\ pc' = "combine_test"
            /\ UNCHANGED <<outcome, fold_num, locals>>

\* base.py:105-115
CombineTest ==
    /\ pc = "combine_test"
    /\ UNCHANGED <<config, vocab, ckpt, fold_validation, fold_test, train_csv>>
    /\ IF \E f \in CombinedFolds : ~fold_test[f].exists
       THEN /\ Raise("FileNotFoundError")
            /\ UNCHANGED <<test_csv, log_run, scores, saved_by, saved_model>>
       ELSE /\ test_csv' = File(GroupByIdMean(Concat(fold_test, NumCombined)))
            /\ pc' = "idle"
            /\ outcome' = "returned"
            /\ fold_num' = 0
            /\ LocalsGone

\* the process is interrupted (SIGINT: KeyboardInterrupt) in the aggregation of the
\* test predictions (base.py:105-113): while the fold files are read, test.csv
\* untouched, or while to_csv writes test.csv, which it opens under its final
\* name and fills row by row
Interrupt ==
    /\ pc = "combine_test"
    /\ UNCHANGED <<config, vocab, ckpt, fold_validation, fold_test, train_csv>>
    /\ \/ test_csv' = test_csv
       \/ /\ \A f \in CombinedFolds : fold_test[f].exists
          /\ LET rows == GroupByIdMean(Concat(fold_test, NumCombined)) IN
             \E n \in 0..(Len(rows) - 1) : test_csv' = File(SubSeq(rows, 1, n))
    /\ Raise("KeyboardInterrupt")
    /\ UNCHANGED <<log_run, scores, saved_by, saved_model>>

Next ==
    \/ MainStart
    \/ TrainBegin
    \/ Run
    \/ Fail
    \/ PredictValidation
    \/ PredictTest
    \/ CombineValidation
    \/ CombineTest
    \/ Interrupt

Spec == Init /\ [][Next]_vars

\* the vocabulary and the embedding matrix of the first model, for every
\* pretrained source
InitVocab == InitWith(AllPretrained, {0, 1}, {NumCombined}, MainIterLengths)
NextVocab ==
    \/ MainStart
    \/ TrainBegin
    \/ Run
SpecVocab == InitVocab /\ [][NextVocab]_vars

\* the training of the first fold, batch by batch
InitSchedule == InitWith(MainPretrained, LrLowValues, {2}, TrainIterLengths)
NextSchedule ==
    \/ MainStart
    \/ TrainBegin
    \/ RunStart
    \/ Batch
    \/ RunEnd
SpecSchedule == InitSchedule /\ [][NextSchedule]_vars

\* the folds of a split of two, every run going through to its evaluation: main
\* is one sequential thread, so once invoked it takes its next step; nothing
\* obliges anybody to invoke it (again)
InitTermination == InitWith(MainPretrained, LrLowValues, {2}, MainIterLengths)
NextTermination ==
    \/ MainStart
    \/ TrainBegin
    \/ Run
    \/ PredictValidation
    \/ PredictTest
SpecTermination ==
    /\ InitTermination /\ [][NextTermination]_vars
    /\ WF_vars(TrainBegin) /\ WF_vars(Run)
    /\ WF_vars(PredictValidation) /\ WF_vars(PredictTest)

\* =================================================================== claims
Last(seq) == seq[Len(seq)]
RECURSIVE MaxOf(_)
MaxOf(seq) ==
    IF Len(seq) = 1 THEN seq[1]
    ELSE LET m == MaxOf(Tail(seq)) IN IF Head(seq) > m THEN Head(seq) ELSE m
\* this step is a run of train that ended with the validation score evaluated
RunEvaluated == pc = "train" /\ Len(scores') = Len(scores) + 1
\* ... and the score was not strictly greater than the best so far
RunNotImproving == RunEvaluated /\ Last(scores') <= best_val_auc
InWarmup == pc = "train" /\ ~model.requires_grad
InFineTune == pc = "train" /\ model.requires_grad

C2_EarlyStopEntersFineTune ==
    [][(InWarmup /\ params.lr_low # 0 /\ RunNotImproving) =>
          /\ pc' = "train"
          /\ model'.origin = "loaded" /\ model'.from >= 1
          /\ model'.requires_grad /\ "embedding" \in parameters'
          /\ run' = 0 /\ t_max' = 1 /\ lr_max' = params.lr_low]_vars

\* C3 (as stated): when train has returned, the model it returned is the
\* checkpoint saved by a run of this train call, and that run has the highest
\* validation score of all runs of the call.
C3_ReturnedModelIsBest ==
    pc = "predict_val" =>
        /\ model.origin = "loaded" /\ model.from >= 1
        /\ scores[model.from] = MaxOf(scores)

\* C4: the checkpoint is written only by a run whose score is strictly greater
\* than the score of every earlier run of the train call (in either phase); a
\* non-improving run (an equal score included) leaves the checkpoint as it is;
\* best_val_auc never decreases while train runs, also on entering FINE_TUNE.
C4_CheckpointOnlyOnStrictImprovement ==
    [][/\ (ckpt' # ckpt \/ (pc = "train" /\ saved_by' # saved_by)) =>
            /\ RunEvaluated
            /\ \A i \in 1..Len(scores) : Last(scores') > scores[i]
            /\ ckpt' = ckpt \cup {fold_num}
            /\ saved_by' = Len(scores')
       /\ (RunEvaluated /\ \E i \in 1..Len(scores) : Last(scores') <= scores[i]) =>
            (ckpt' = ckpt /\ saved_by' = saved_by)
       /\ (pc = "train" /\ pc' = "train") => best_val_auc' >= best_val_auc]_vars

\* C4 witness: the second run equals the first (fine-tuning starts, checkpoint
\* of run 1 kept), the third run, in FINE_TUNE, beats both and saves
C4_Witness ==
    /\ InFineTune /\ Len(scores) = 3 /\ saved_by = 3
    /\ scores[2] = scores[1] /\ scores[3] > scores[1]

C6_ResumeIsNoOp ==
    [][(pc = "idle" /\ test_csv.exists) =>
          /\ files' = files
          /\ pc' = "idle" /\ fold_num' = fold_num
          /\ UNCHANGED <<vocab, locals>>
          /\ outcome' = "skipped"]_vars

\* C6 witness: a second invocation after a completed one was skipped
C6_Witness == outcome = "skipped" /\ test_csv.exists /\ train_csv.exists

\* C7 (as stated): train.csv is the concatenation of the validation files of
\* the folds 1..k of the split, and holds every labeled id exactly once.
C7_CombinedValidationCoversSplit ==
    train_csv.exists =>
        /\ train_csv.rows = Concat(fold_validation, k)
        /\ \A id \in TrainIds : CountRows(train_csv.rows, id) = 1

\* C8 (as stated): test.csv holds every test id exactly once, with the mean of
\* that id's scores over the test files of the k folds trained.
C8_CombinedTestIsMeanOverTrainedFolds ==
    test_csv.exists =>
        \A id \in TestIds :
            /\ CountRows(test_csv.rows, id) = 1
            /\ \A i \in 1..Len(test_csv.rows) :
                  test_csv.rows[i].id = id =>
                      test_csv.rows[i].score.num * k =
                          test_csv.rows[i].score.den * SumScores(Concat(fold_test, k), id)

\* C9 (as stated): when no token of the vocabulary has a pretrained vector, no
\* vocabulary is returned and main does not go on to the folds.
C9_EmptyIntersectionRaises ==
    vectors_count(pretrained, Len(itos)) = 0 =>
        (vocab = NoVocab /\ pc \notin {"fold", "train"})

\* C10 (as stated): with lr_low < 0 or fewer than 2 folds no training run is
\* ever completed and no checkpoint or prediction file is ever written.
C10_ConfigErrorsFailFast ==
    (params.lr_low < 0 \/ k < 2) =>
        /\ scores = <<>>
        /\ ckpt = {}
        /\ \A f \in Folds : ~fold_validation[f].exists /\ ~fold_test[f].exists

Errors == {"RuntimeError", "FileNotFoundError", "ValueError"}

\* C11: an exception raised while a fold is trained or predicted (forward or
\* backward pass, evaluation, checkpoint load) ends main at once: nothing is
\* retried, no further fold is started, no file is written by the failing step
\* (neither train.csv nor test.csv in particular), and test.csv does not exist
\* afterwards, so the next invocation is not skipped.
C11_FailureAbortsOrchestration ==
    [][(pc \in {"train", "predict_val", "predict_test"} /\ outcome' \in Errors) =>
          /\ pc' = "idle" /\ fold_num' = 0
          /\ files' = files
          /\ ~test_csv'.exists
          /\ ~OutputExists']_vars

\* C11 witness: fold 1 is complete, the first run of fold 2 scored 0 and the
\* checkpoint load raised; no combined output exists
C11_Witness ==
    /\ outcome = "FileNotFoundError" /\ pc = "idle" /\ scores = <<0>>
    /\ fold_test[1].exists /\ ~fold_validation[2].exists
    /\ ~train_csv.exists /\ ~test_csv.exists

\* the tokens of the vocabulary that the pretrained source knows
Found == {t \in Tokens : pretrained[t] # NotFound}
RECURSIVE SumOfVectors(_)
SumOfVectors(S) ==
    IF S = {} THEN 0
    ELSE LET t == CHOOSE x \in S : TRUE IN pretrained[t][1] + SumOfVectors(S \ {t})

\* C12: the padding token is the first token of the vocabulary (index 0), and
\* in every module built from the vocabulary, by build_model or by load_model,
\* the padding row of the embedding matrix is exactly zero, whatever vector
\* the vocabulary holds for it.
C12_PaddingRowIsZero ==
    /\ itos[PadIndex] = PadToken
    /\ \A i \in 1..Len(itos) : itos[i] = PadToken => i = PadIndex
    /\ model.origin # "none" => model.embedding[PadIndex] = ZeroVector

\* C12 witness: the padding token has no pretrained vector, its row in the
\* vocabulary is the non-zero mean, and a loaded module has a zero row for it
C12_Witness ==
    /\ model.origin = "loaded"
    /\ PadToken \notin Found
    /\ vocab[PadIndex].num > 0 /\ vocab[PadIndex].den > 0
    /\ model.embedding[PadIndex] = ZeroVector

\* C13: in the vocabulary built, every token the pretrained source knows has
\* its own pretrained vector, and every other token has the sum of the vectors
\* of the found tokens divided by the number of found tokens.
C13_MissingTokensGetMeanOfFound ==
    vocab # NoVocab =>
        \A i \in 1..Len(itos) :
            IF itos[i] \in Found
            THEN vocab[i] = Frac(pretrained[itos[i]][1], 1)
            ELSE vocab[i] = Frac(SumOfVectors(Found), Cardinality(Found))

\* C13 witness: two tokens found with different vectors, the third not found
\* and given their mean
C13_Witness ==
    /\ vocab # NoVocab
    /\ Found = {PadToken, "a"} /\ pretrained[PadToken] # pretrained["a"]
    /\ vocab[3] = Frac(pretrained[PadToken][1] + pretrained["a"][1], 2)

\* C14: in every run the learning rate equals lr_max at the first batch
\* (t_cur = 0), the schedule's value at t_cur = t_max is lr_min = 0, and from
\* batch to batch of the run the learning rate never increases.
C14_CosineScheduleNonIncreasing ==
    [][pc' = "run" =>
          /\ (step' <= 1 => lr' = FullLr(lr_max'))
          /\ LearningRate(lr_max', RunLength', RunLength') = NoLr
          /\ (pc = "run" => lr'.num <= lr.num)]_vars

\* C15: within one train call the phases occur only in the order WARMUP,
\* (WARMUP_STOPPED,) FINE_TUNE, DONE: fine-tuning is entered only from the
\* warm-up, by a non-improving run, and never left for the warm-up again (so it
\* is entered at most once); embeddings that are unfrozen are never frozen
\* again; train returns only after a non-improving run; and a non-improving run
\* in FINE_TUNE always makes train return.
C15_PhasesInOrder ==
    [][/\ (InFineTune' /\ ~InFineTune => InWarmup /\ RunNotImproving)
       /\ (InFineTune => ~InWarmup')
       /\ (pc = "train" /\ pc' = "train" /\ model.requires_grad => model'.requires_grad)
       /\ (pc = "train" /\ pc' = "predict_val" => RunNotImproving)
       /\ (InFineTune /\ RunNotImproving => pc' = "predict_val")]_vars
\* a call that went through every phase: warm-up run 1 improves, run 2 does not,
\* fine-tuning run 1 improves, run 2 does not, train has returned
C15_Witness ==
    /\ pc = "predict_val" /\ params.lr_low = 1 /\ scores = <<1, 1, 2, 2>>
    /\ model.from = 3 /\ model.embedding_steps > 0

\* C16: the folds are processed one after the other in increasing id; each
\* fold is trained, then its validation predictions and then its test
\* predictions are written, all before the next fold starts; train.csv and
\* then test.csv are written only after every fold of the split has completed.
C16_FoldsSequentialThenCombined ==
    [][/\ (pc' = "train" /\ pc # "train" =>
              /\ pc = "fold" /\ fold_num' = fold_num + 1
              /\ fold_num >= 1 =>
                    fold_validation[fold_num].exists /\ fold_test[fold_num].exists)
       /\ (fold_num' # fold_num => pc' = "train" \/ fold_num' = 0)
       /\ (pc = "train" => pc' \in {"train", "predict_val", "idle"})
       /\ (pc = "predict_val" /\ pc' # pc =>
              \/ pc' = "idle"
              \/ pc' = "predict_test" /\ fold_validation'[fold_num].exists)
       /\ (pc = "predict_test" /\ pc' # pc =>
              \/ pc' = "idle"
              \/ pc' = "fold" /\ fold_test'[fold_num].exists)
       /\ (fold_validation' # fold_validation =>
              /\ pc = "predict_val"
              /\ \A f \in Folds : f # fold_num => fold_validation'[f] = fold_validation[f])
       /\ (fold_test' # fold_test =>
              /\ pc = "predict_test"
              /\ \A f \in Folds : f # fold_num => fold_test'[f] = fold_test[f])
       /\ (train_csv' # train_csv =>
              /\ pc = "fold" /\ fold_num = k /\ pc' = "combine_test"
              /\ \A f \in 1..k : fold_validation[f].exists /\ fold_test[f].exists)
       /\ (test_csv' # test_csv =>
              /\ pc = "combine_test" /\ fold_num = k /\ train_csv.exists)]_vars
\* an invocation that went through ten folds and both aggregations
C16_Witness ==
    /\ pc = "idle" /\ outcome = "returned" /\ k = NumCombined
    /\ \A f \in 1..k : fold_validation[f].exists /\ fold_test[f].exists
    /\ train_csv.exists /\ test_csv.exists

\* C17: while the embeddings are frozen (WARMUP) they are not among the
\* optimized parameters and no optimizer step changes them; once fine-tuning
\* has started they are among the optimized parameters and every optimizer
\* step updates them.
C17_EmbeddingsFrozenInWarmup ==
    [][/\ (pc \in {"train", "run"} /\ ~model.requires_grad =>
              /\ "embedding" \notin parameters
              /\ model.embedding_steps = 0
              /\ pc' = "run" =>
                    model'.embedding_steps = 0 /\ model'.embedding = model.embedding)
       /\ (pc \in {"train", "run"} /\ model.requires_grad =>
              /\ "embedding" \in parameters
              /\ pc' = "run" /\ step' = step + 1 =>
                    model'.embedding_steps = model.embedding_steps + 1)]_vars
\* the first batch of fine-tuning is done: the steps of the warm-up are in the
\* module, the embeddings have taken part in this one step only
C17_Witness ==
    /\ pc = "run" /\ model.requires_grad /\ step = 1
    /\ model.embedding_steps = 1 /\ model.steps = InitialTMax * len_train_iter + 1

\* C18: every fold starts from a fresh controller state: a newly built module
\* with frozen embeddings and no optimizer step in it, run = epoch = 0,
\* best_val_auc = 0, lr_max = lr_high, the initial t_max and no score; and the
\* only checkpoint a fold writes or loads is its own.
C18_FoldStartsFresh ==
    [][/\ (pc = "fold" /\ pc' = "train" =>
              /\ model' = [BuiltModel(fold_num') EXCEPT !.requires_grad = FALSE]
              /\ model'.steps = 0 /\ model'.embedding_steps = 0
              /\ "embedding" \notin parameters'
              /\ run' = 0 /\ epoch' = 0
              /\ best_val_auc' = InitialBest
              /\ lr_max' = params.lr_high /\ lr' = FullLr(params.lr_high)
              /\ t_max' = InitialTMax
              /\ scores' = <<>> /\ saved_by' = 0)
       /\ (ckpt' # ckpt => pc = "train" /\ ckpt' = ckpt \cup {fold_num})
       /\ (RunNotImproving /\ pc' # "idle" =>
              /\ model'.origin = "loaded"
              /\ model'.fold = fold_num
              /\ fold_num \in ckpt
              /\ model'.from = saved_by
              /\ model'.steps = saved_model.steps)]_vars
\* the second fold starts after a first fold that went through fine-tuning
C18_Witness ==
    /\ pc = "train" /\ fold_num = 2 /\ run = 0 /\ scores = <<>>
    /\ model.origin = "built" /\ ~model.requires_grad /\ model.steps = 0
    /\ ckpt = {1} /\ fold_test[1].exists /\ params.lr_low = 1
    /\ t_max = InitialTMax /\ best_val_auc = InitialBest

\* C19 (as stated): whenever train loads the checkpoint of its fold, that is
\* after every run that does not improve, a run of the same train call has
\* saved it before, so the load finds a file and the file is of this call.
C19_LoadedCheckpointSavedInCall ==
    [][RunNotImproving => saved_by >= 1 /\ outcome' \notin Errors]_vars

\* C20 (as stated): for every sequence of scores the training of a fold
\* reaches DONE (train returns); a phase ends at its first non-improving run,
\* and no phase has more runs than there are score values, plus one.
C20_TrainingReachesDone ==
    /\ [][RunNotImproving => pc' # "train" \/ (InWarmup /\ InFineTune')]_vars
    /\ [](log_run[1] <= Cardinality(Scores) + 1)
    /\ (pc = "train" ~> pc = "predict_val")

\* the ways an invocation of main ends before completion
Aborts == Errors \cup {"KeyboardInterrupt"}

\* C21 (as stated): test.csv is written last: whenever it exists, train.csv and
\* the validation and test files of every fold of the split exist too, and the
\* last invocation was not aborted, so that no aborted invocation leaves
\* behind a test.csv that makes a later invocation skip.
C21_ResumeMarkerWrittenLast ==
    test_csv.exists =>
        /\ train_csv.exists
        /\ \A f \in 1..k : fold_validation[f].exists /\ fold_test[f].exists
        /\ outcome \notin Aborts

====
